---- MODULE Spec2Model ----
(***************************************************************************)
(* Ankigenix: the asynchronous document-to-flashcard pipeline.             *)
(*                                                                         *)
(* The model covers the three Inngest functions of src/inngest/functions.ts*)
(* (generateFlashcards, analyzeDocument, generateFromOutline), the server  *)
(* actions that create tasks and send the events, and the rows they touch: *)
(* generation_task, credits_balance, credits_transaction, deck and card.   *)
(*                                                                         *)
(* Every `await` on the database or on an external service is one atomic   *)
(* action, so that function runs interleave exactly where the code yields. *)
(* A step body that throws is re-run from its first statement up to        *)
(* `retries` times (step.run); results of completed steps are memoised in  *)
(* the run.  When the retries are used up the run ends; no function        *)
(* registers a failure handler.                                            *)
(*                                                                         *)
(* Credits are counted in hundredths of a credit.                          *)
(***************************************************************************)
EXTENDS Integers, Sequences, FiniteSets, Bags, TLC

(***************************************************************************)
(* Bounds of the model.                                                    *)
(***************************************************************************)
MaxLoad == 4
MaxFaults == 1
MaxChunks == 2
InitBalance == 500
MaxCards == 4
MaxPieces == 6
MaxIterations == 6
MaxRawChapters == 3
MaxTokenSteps == 400
SmallInputBudget == 30

(***************************************************************************)
(* Program constants.                                                      *)
(***************************************************************************)
Retries == 2
ChunkMaxTokens == 3500
ChunkMaxCards == 30
LegacyMaxCards == 20
MIN_CREDITS_COST == 1
INDEXING_RATE_PER_10K_TOKENS == 120
CREATION_RATE_PER_10K_TOKENS == 200
MarkerPrefixLong == 50
MarkerPrefixShort == 20
DefaultMaxChapters == 15
MODEL_TOKEN_LIMIT == 128000
OutputReserve == 4000
CREDIT_COSTS == [text |-> 100, url |-> 300, file |-> 300, video |-> 500]

SourceTypes == {"text", "url", "video"}

None == <<>>
NoId == <<0, 0>>
Some(v) == <<v>>

Max(a, b) == IF a >= b THEN a ELSE b
CeilDiv(a, b) == (a + b - 1) \div b

RECURSIVE SumSeq(_)
SumSeq(s) == IF s = <<>> THEN 0 ELSE Head(s) + SumSeq(Tail(s))

RECURSIVE Flat(_)
Flat(ss) == IF ss = <<>> THEN <<>> ELSE Head(ss) \o Flat(Tail(ss))

Take(s, n) == SubSeq(s, 1, IF Len(s) < n THEN Len(s) ELSE n)

Range(s) == {s[i] : i \in DOMAIN s}

(***************************************************************************)
(* Billing.                                                                *)
(***************************************************************************)
\* Natural numbers of any size, as the sequence of their digits to the base
\* 2^15, lowest digit first: the 53-bit significands of the Number type and
\* their products
Limb == 2^15

RECURSIVE BigFromInt(_)
BigFromInt(x) == IF x = 0 THEN <<>> ELSE <<x % Limb>> \o BigFromInt(x \div Limb)

RECURSIVE BigToInt(_)
BigToInt(n) == IF n = <<>> THEN 0 ELSE Head(n) + Limb * BigToInt(Tail(n))

RECURSIVE BigNorm(_)
BigNorm(n) ==
    IF n # <<>> /\ n[Len(n)] = 0 THEN BigNorm(SubSeq(n, 1, Len(n) - 1)) ELSE n

RECURSIVE BigMulSmall(_, _, _)
BigMulSmall(n, k, carry) ==
    IF n = <<>> THEN BigFromInt(carry)
    ELSE LET v == Head(n) * k + carry
         IN  <<v % Limb>> \o BigMulSmall(Tail(n), k, v \div Limb)

RECURSIVE BigAdd(_, _, _)
BigAdd(a, b, carry) ==
    IF a = <<>> /\ b = <<>> THEN BigFromInt(carry)
    ELSE LET x == IF a = <<>> THEN 0 ELSE Head(a)
             y == IF b = <<>> THEN 0 ELSE Head(b)
             v == x + y + carry
         IN  <<v % Limb>> \o BigAdd(IF a = <<>> THEN a ELSE Tail(a),
                                     IF b = <<>> THEN b ELSE Tail(b), v \div Limb)

RECURSIVE BigMul(_, _)
BigMul(a, b) ==
    IF a = <<>> THEN <<>>
    ELSE BigAdd(BigMulSmall(b, Head(a), 0), <<0>> \o BigMul(Tail(a), b), 0)

\* quotient and remainder of n by a divisor below 2^15
RECURSIVE BigDivSmall(_, _)
BigDivSmall(n, d) ==
    IF n = <<>> THEN [q |-> <<>>, r |-> 0]
    ELSE LET hi == BigDivSmall(Tail(n), d)
             cur == hi.r * Limb + Head(n)
         IN  [q |-> <<cur \div d>> \o hi.q, r |-> cur % d]

RECURSIVE BitLen(_)
BitLen(x) == IF x = 0 THEN 0 ELSE 1 + BitLen(x \div 2)

BigBits(n) == IF n = <<>> THEN 0 ELSE 15 * (Len(n) - 1) + BitLen(n[Len(n)])

BigShl(n, s) ==
    BigNorm([i \in 1..(s \div 15) |-> 0] \o BigMulSmall(n, 2^(s % 15), 0))

\* n shifted right by s bits, and whether a bit set was shifted out
BigShr(n, s) ==
    LET k == IF s \div 15 < Len(n) THEN s \div 15 ELSE Len(n)
        dv == BigDivSmall(SubSeq(n, k + 1, Len(n)), 2^(s % 15))
    IN  [q |-> BigNorm(dv.q),
         sticky |-> dv.r # 0 \/ \E i \in 1..k : n[i] # 0]

BigOdd(n) == n # <<>> /\ Head(n) % 2 = 1

(***************************************************************************)
(* The Number type: an IEEE 754 double is m * 2^e with a significand m of  *)
(* at most 53 bits; every operation rounds its exact result to the nearest *)
(* such number, ties to the even significand.  The amounts here are far    *)
(* from the subnormal and the overflow range.                              *)
(***************************************************************************)
\* (n + f) * 2^e rounded, where 0 <= f < 1 and sticky says that f > 0
RoundToDouble(n, e, sticky) ==
    IF BigBits(n) <= 53 THEN [m |-> n, e |-> e]
    ELSE LET s == BigBits(n) - 53
             t == BigShr(n, s - 1)
             q == BigNorm(BigDivSmall(t.q, 2).q)
             up == BigOdd(t.q) /\ (t.sticky \/ sticky \/ BigOdd(q))
         IN  [m |-> IF up THEN BigNorm(BigAdd(q, <<1>>, 0)) ELSE q, e |-> e + s]

\* an integer below 2^31 is a Number exactly
DoubleOfInt(x) == [m |-> BigFromInt(x), e |-> 0]

\* a / b for an integer a and an integer divisor below 2^15; also the value
\* of a decimal literal such as 1.2 (120 / 100)
DoubleDiv(a, b) ==
    LET dv == BigDivSmall(BigShl(BigFromInt(a), 75), b)
    IN  RoundToDouble(BigNorm(dv.q), -75, dv.r # 0)

DoubleMul(x, y) == RoundToDouble(BigNorm(BigMul(x.m, y.m)), x.e + y.e, FALSE)

\* Math.floor of a Number that is not negative
DoubleFloor(x) ==
    IF x.e >= 0 THEN BigToInt(BigShl(x.m, x.e)) ELSE BigToInt(BigShr(x.m, -x.e).q)

\* Math.floor(value * 100) / 100, as a number of hundredths: the quotient of
\* an integer n by 100 is the Number nearest to n hundredths
truncateToTwoDecimals(value) == DoubleFloor(DoubleMul(value, DoubleOfInt(100)))

\* Math.max(MIN_CREDITS_COST, truncateToTwoDecimals((totalTokens / 10000) * rate))
calculateIndexingCost(totalTokens) ==
    LET cost == DoubleMul(DoubleDiv(totalTokens, 10000),
                          DoubleDiv(INDEXING_RATE_PER_10K_TOKENS, 100))
    IN  Max(MIN_CREDITS_COST, truncateToTwoDecimals(cost))

calculateCreationCost(selectedTokens) ==
    LET cost == DoubleMul(DoubleDiv(selectedTokens, 10000),
                          DoubleDiv(CREATION_RATE_PER_10K_TOKENS, 100))
    IN  Max(MIN_CREDITS_COST, truncateToTwoDecimals(cost))

\* Math.max(1, Math.ceil(selectedTokens / 10000)) credits
calculateCreditsCost(selectedTokens) ==
    100 * Max(1, CeilDiv(selectedTokens, 10000))

(***************************************************************************)
(* Strings of the flashcards: a string is a sequence of characters.        *)
(***************************************************************************)
LowerChar(c) == IF c = "X" THEN "x" ELSE IF c = "Y" THEN "y" ELSE c

toLowerCase(s) == [i \in DOMAIN s |-> LowerChar(s[i])]

\* the white space characters of the texts considered (\s)
IsSpace(c) == c \in {" ", "\n"}

RECURSIVE TrimLeft(_)
TrimLeft(s) == IF s # <<>> /\ IsSpace(Head(s)) THEN TrimLeft(Tail(s)) ELSE s

RECURSIVE TrimRight(_)
TrimRight(s) ==
    IF s # <<>> /\ IsSpace(s[Len(s)])
    THEN TrimRight(SubSeq(s, 1, Len(s) - 1)) ELSE s

trim(s) == TrimRight(TrimLeft(s))

\* the dedup key of the save step: card.front.toLowerCase().trim()
DedupKey(c) == trim(toLowerCase(c.front))

\* uniqueCards: a Map filled in sequence order, first key wins; its values
\* come back in insertion order
RECURSIVE DedupeFrom(_, _)
DedupeFrom(cs, seen) ==
    IF cs = <<>> THEN <<>>
    ELSE IF DedupKey(Head(cs)) \in seen THEN DedupeFrom(Tail(cs), seen)
         ELSE <<Head(cs)>> \o DedupeFrom(Tail(cs), seen \cup {DedupKey(Head(cs))})

\* Dedupe with the last card of a key winning, in the order of the last
\* occurrences
DedupeLastWins(cs) ==
    LET Reverse(q) == [i \in 1..Len(q) |-> q[Len(q) + 1 - i]]
    IN  Reverse(DedupeFrom(Reverse(cs), {}))

Dedupe(cs) == DedupeFrom(cs, {})

(***************************************************************************)
(* The LLM and what generateFlashcardsFromText makes of its answer.        *)
(***************************************************************************)
CardXA == [front |-> <<"X">>, back |-> <<"A">>]
CardxB == [front |-> <<"x", " ">>, back |-> <<"B">>]
CardYC == [front |-> <<"Y">>, back |-> <<"C">>]
CardBlank == [front |-> <<" ">>, back |-> <<"D">>]
CardyA == [front |-> <<" ", "y">>, back |-> <<"A">>]

\* an answer of the completion endpoint: no content, or a parsed card list
NoResponse == [text |-> FALSE, cards |-> <<>>]
Answer(cs) == [text |-> TRUE, cards |-> cs]

LlmResponses ==
    { NoResponse,
      Answer(<<CardBlank>>),
      Answer(<<CardXA>>),
      Answer(<<CardxB, CardBlank>>) }

ValidCard(c) == Len(trim(c.front)) > 0 /\ Len(trim(c.back)) > 0

RECURSIVE FilterValid(_)
FilterValid(cs) ==
    IF cs = <<>> THEN <<>>
    ELSE IF ValidCard(Head(cs)) THEN <<Head(cs)>> \o FilterValid(Tail(cs))
         ELSE FilterValid(Tail(cs))

\* generateFlashcardsFromText: [ok |-> FALSE] stands for a thrown Error
generateFlashcardsFromText(resp, maxCards) ==
    IF ~resp.text THEN [ok |-> FALSE, cards |-> <<>>]
    ELSE LET validCards == FilterValid(resp.cards)
         IN  IF Len(validCards) = 0 THEN [ok |-> FALSE, cards |-> <<>>]
             ELSE [ok |-> TRUE, cards |-> Take(validCards, maxCards)]

(***************************************************************************)
(* Documents as the workflow sees them: the token count of the parsed      *)
(* text, the estimatedTokens of the chapters of its outline, and the       *)
(* number of chunks a selection above the chunk limit is split into.       *)
(***************************************************************************)
Docs ==
    { [tokens |-> 15000, chapters |-> <<3000, 12000>>, parts |-> k] : k \in 2..MaxChunks }

NoDoc == [tokens |-> 0, chapters |-> <<>>, parts |-> 0]

\* chapter indices are 0-based
Selections == { <<0>>, <<1>> }

\* outline.chapters.filter(ch => selected.includes(ch.index)).reduce(sum)
selectedTokensOf(chapters, sel) ==
    SumSeq([i \in DOMAIN chapters |->
              IF (i - 1) \in Range(sel) THEN chapters[i] ELSE 0])

\* length of splitIntoChunks(extractSelectedChaptersText(...)) for the
\* documents above: empty text gives no chunk, text within the limit one
chunkCountOf(doc, chapters, sel) ==
    LET s == selectedTokensOf(chapters, sel)
    IN  IF s = 0 THEN 0
        ELSE IF s <= ChunkMaxTokens THEN 1
        ELSE doc.parts

(***************************************************************************)
(* State.                                                                  *)
(*   tasks     generation_task rows, the task id is the index              *)
(*   balance, totalSpent   the credits_balance row of the user             *)
(*   txns      credits_transaction rows, a bag                             *)
(*   decks     deck rows, each with its id and its card rows               *)
(*   runs      the function runs started by the events sent so far         *)
(*   faults    number of database statements that have thrown              *)
(*   call      a call of one of the library functions (deduplication,      *)
(*             chunker, outline builder) examined on its own: its          *)
(*             arguments, its locals and its result                        *)
(***************************************************************************)
VARIABLES tasks, balance, totalSpent, txns, decks, runs, faults, call

vars == <<tasks, balance, totalSpent, txns, decks, runs, faults, call>>

\* no library function is under examination
NoCall == [fn |-> "none"]

NewTask(sourceType, creditsCost) ==
    [ status |-> "pending", sourceType |-> sourceType, creditsCost |-> creditsCost,
      documentText |-> None, documentOutline |-> None, selectedChapters |-> None,
      totalChunks |-> -1, completedChunks |-> 0, deckId |-> NoId, cardCount |-> 0,
      errorMessage |-> None ]

\* a run of a function: its event data (task, src, cost, sel), its position
\* (pc, attempts), the memoised step results and the locals of the step body;
\* debits records how often the run has written the balance row (history)
NewRun(fn, task, pc, src, cost, sel) ==
    [ fn |-> fn, task |-> task, pc |-> pc, attempts |-> 0, err |-> "none",
      src |-> src, cost |-> cost, sel |-> sel,
      at |-> "none", bal |-> -1, spent |-> -1, deck |-> NoId, debits |-> 0,
      doc |-> NoDoc, chapters |-> <<>>, cards |-> <<>>, chunks |-> <<>> ]

\* the rows before any task exists
NoRows ==
    /\ tasks = <<>>
    /\ balance = InitBalance
    /\ totalSpent = 0
    /\ txns = EmptyBag
    /\ decks = {}
    /\ runs = <<>>
    /\ faults = 0

Init == NoRows /\ call = NoCall

\* nanoid(): an id no other call returns; here the calling run and the
\* attempt of its step
nanoid(r) == <<r, runs[r].attempts>>

\* db.insert(card).values(rows) for the deck with the given id
InsertCards(deckId, rows) ==
    {IF d.id = deckId THEN [d EXCEPT !.rows = rows] ELSE d : d \in decks}

RunIds == DOMAIN runs
TaskIds == DOMAIN tasks

(***************************************************************************)
(* step.run: the first statement of the step a position belongs to, and    *)
(* what a throw inside a step body does to the run.                        *)
(***************************************************************************)
StepStart(pc) ==
    CASE pc \in {"G_read", "G_write", "G_record"} -> "G_read"
      [] pc \in {"G_deck", "G_cards", "G_complete"} -> "G_deck"
      [] pc \in {"A_read", "A_write", "A_record", "A_cost"} -> "A_read"
      [] pc \in {"O_read", "O_write", "O_record"} -> "O_read"
      [] pc \in {"O_deck", "O_cards", "O_complete"} -> "O_deck"
      [] OTHER -> pc

\* the step body threw: retry it from its start while attempts remain,
\* otherwise the run ends at that step with the error
Thrown(run, kind) ==
    IF run.attempts < Retries
    THEN [run EXCEPT !.attempts = @ + 1, !.pc = StepStart(run.pc),
                     !.bal = -1, !.spent = -1, !.deck = NoId]
    ELSE [run EXCEPT !.pc = "failed", !.err = kind, !.attempts = 0,
                     !.bal = -1, !.spent = -1, !.deck = NoId,
                     !.at = StepStart(run.pc)]

\* the step body returned: the next step starts with a fresh retry count
Stepped(run, pc) == [run EXCEPT !.pc = pc, !.attempts = 0]

Terminated(r) == runs[r].pc \in {"done", "failed"}

(***************************************************************************)
(* generateFlashcardsAction (legacy flow): validate, check the balance,    *)
(* insert the task and send "flashcard/generate".                          *)
(***************************************************************************)
generateFlashcardsAction(sourceType) ==
    LET creditsCost == CREDIT_COSTS[sourceType] IN
    /\ Len(tasks) + Len(runs) + 2 <= MaxLoad
    /\ balance >= creditsCost
    /\ tasks' = Append(tasks, NewTask(sourceType, creditsCost))
    /\ runs' = Append(runs, NewRun("generate", Len(tasks) + 1, "G_processing",
                                   sourceType, creditsCost, <<>>))
    /\ UNCHANGED <<call, balance, totalSpent, txns, decks, faults>>

(***************************************************************************)
(* generateFlashcards                                                      *)
(***************************************************************************)
\* step "update-task-processing"
G_UpdateTaskProcessing(r) ==
    /\ runs[r].pc = "G_processing"
    /\ tasks' = [tasks EXCEPT ![runs[r].task].status = "processing"]
    /\ runs' = [runs EXCEPT ![r] = Stepped(@, "G_read")]
    /\ UNCHANGED <<call, balance, totalSpent, txns, decks, faults>>

\* "deduct-credits" going on to the next step without a debit when the
\* balance is too low
G_DeductReadSkipping(r) ==
    /\ runs[r].pc = "G_read"
    /\ runs' = [runs EXCEPT ![r] =
                  IF balance < @.cost THEN Stepped(@, "G_generate")
                  ELSE [@ EXCEPT !.pc = "G_write", !.bal = balance,
                                 !.spent = totalSpent]]
    /\ UNCHANGED <<call, tasks, balance, totalSpent, txns, decks, faults>>

\* step "deduct-credits": read the balance row and check it
G_DeductRead(r) ==
    /\ runs[r].pc = "G_read"
    /\ runs' = [runs EXCEPT ![r] =
                  IF balance < @.cost THEN Thrown(@, "insufficient")
                  ELSE [@ EXCEPT !.pc = "G_write", !.bal = balance,
                                 !.spent = totalSpent]]
    /\ UNCHANGED <<call, tasks, balance, totalSpent, txns, decks, faults>>

\* step "deduct-credits": write balance and totalSpent from the values read
G_DeductWrite(r) ==
    /\ runs[r].pc = "G_write"
    /\ balance' = runs[r].bal - runs[r].cost
    /\ totalSpent' = runs[r].spent + runs[r].cost
    /\ runs' = [runs EXCEPT ![r] = [@ EXCEPT !.pc = "G_record", !.debits = @ + 1]]
    /\ UNCHANGED <<call, tasks, txns, decks, faults>>

\* step "deduct-credits": insert the consumption transaction
G_DeductRecord(r) ==
    /\ runs[r].pc = "G_record"
    /\ txns' = txns (+) SetToBag({[task |-> runs[r].task, amount |-> runs[r].cost,
                             creditAccount |-> "flashcard_generation"]})
    /\ runs' = [runs EXCEPT ![r] = Stepped([@ EXCEPT !.bal = -1, !.spent = -1],
                                           "G_generate")]
    /\ UNCHANGED <<call, tasks, balance, totalSpent, decks, faults>>

\* step "generate-cards": resolve the content of the source, then the LLM
\* call.  The action sends no fileKey, video is not implemented, the URL
\* reader may answer with an error status.
G_GenerateCards(r) ==
    /\ runs[r].pc = "G_generate"
    /\ \E fetchOk \in BOOLEAN, resp \in LlmResponses :
          LET inputOk == CASE runs[r].src = "text" -> TRUE
                           [] runs[r].src = "url" -> fetchOk
                           [] OTHER -> FALSE
              res == generateFlashcardsFromText(resp, LegacyMaxCards)
          IN  runs' = [runs EXCEPT ![r] =
                         IF ~inputOk THEN Thrown(@, "input")
                         ELSE IF ~res.ok THEN Thrown(@, "llm")
                         ELSE Stepped([@ EXCEPT !.cards = res.cards], "G_deck")]
    /\ UNCHANGED <<call, tasks, balance, totalSpent, txns, decks, faults>>

\* step "save-to-database": insert the deck under a fresh id
G_InsertDeck(r) ==
    /\ runs[r].pc = "G_deck"
    /\ decks' = decks \cup {[id |-> nanoid(r), task |-> runs[r].task,
                               cardCount |-> Len(runs[r].cards), rows |-> <<>>]}
    /\ runs' = [runs EXCEPT ![r] = [@ EXCEPT !.pc = "G_cards", !.deck = nanoid(r)]]
    /\ UNCHANGED <<call, tasks, balance, totalSpent, txns, faults>>

\* step "save-to-database": insert the card rows, sortIndex = position
G_InsertCards(r) ==
    /\ runs[r].pc = "G_cards"
    /\ decks' = InsertCards(runs[r].deck, runs[r].cards)
    /\ runs' = [runs EXCEPT ![r].pc = "G_complete"]
    /\ UNCHANGED <<call, tasks, balance, totalSpent, txns, faults>>

\* step "save-to-database": mark the task completed; the function returns
G_UpdateTaskCompleted(r) ==
    /\ runs[r].pc = "G_complete"
    /\ tasks' = [tasks EXCEPT ![runs[r].task] =
                   [@ EXCEPT !.status = "completed", !.deckId = runs[r].deck,
                             !.cardCount = Len(runs[r].cards)]]
    /\ runs' = [runs EXCEPT ![r] = Stepped(@, "done")]
    /\ UNCHANGED <<call, balance, totalSpent, txns, decks, faults>>

(***************************************************************************)
(* analyzeDocumentAction (phase A): insert the task with creditsCost 0 and *)
(* send "flashcard/analyze-document".                                      *)
(***************************************************************************)
analyzeDocumentAction ==
    /\ Len(tasks) + Len(runs) + 2 <= MaxLoad
    /\ tasks' = Append(tasks, NewTask("file", 0))
    /\ runs' = Append(runs, NewRun("analyze", Len(tasks) + 1, "A_analyzing",
                                   "file", 0, <<>>))
    /\ UNCHANGED <<call, balance, totalSpent, txns, decks, faults>>

(***************************************************************************)
(* analyzeDocument                                                         *)
(***************************************************************************)
\* step "update-task-analyzing"
A_UpdateTaskAnalyzing(r) ==
    /\ runs[r].pc = "A_analyzing"
    /\ tasks' = [tasks EXCEPT ![runs[r].task].status = "analyzing"]
    /\ runs' = [runs EXCEPT ![r] = Stepped(@, "A_parse")]
    /\ UNCHANGED <<call, balance, totalSpent, txns, decks, faults>>

\* step "download-and-parse": the parsed text, or an error for a file that
\* cannot be fetched or read
parseFileFromStorage == [ok : {FALSE}, doc : {NoDoc}] \cup [ok : {TRUE}, doc : Docs]

A_DownloadAndParse(r) ==
    /\ runs[r].pc = "A_parse"
    /\ \E res \in parseFileFromStorage :
          runs' = [runs EXCEPT ![r] =
                     IF ~res.ok THEN Thrown(@, "input")
                     ELSE Stepped([@ EXCEPT !.doc = res.doc], "A_count")]
    /\ UNCHANGED <<call, tasks, balance, totalSpent, txns, decks, faults>>

\* step "count-tokens"
A_CountTokens(r) ==
    /\ runs[r].pc = "A_count"
    /\ runs' = [runs EXCEPT ![r] = Stepped(@, "A_read")]
    /\ UNCHANGED <<call, tasks, balance, totalSpent, txns, decks, faults>>

\* step "deduct-indexing-credits": compute the cost, read and check the balance
A_DeductRead(r) ==
    LET cost == calculateIndexingCost(runs[r].doc.tokens) IN
    /\ runs[r].pc = "A_read"
    /\ runs' = [runs EXCEPT ![r] =
                  IF balance < cost THEN Thrown(@, "insufficient")
                  ELSE [@ EXCEPT !.pc = "A_write", !.cost = cost,
                                 !.bal = balance, !.spent = totalSpent]]
    /\ UNCHANGED <<call, tasks, balance, totalSpent, txns, decks, faults>>

A_DeductWrite(r) ==
    /\ runs[r].pc = "A_write"
    /\ balance' = runs[r].bal - runs[r].cost
    /\ totalSpent' = runs[r].spent + runs[r].cost
    /\ runs' = [runs EXCEPT ![r] = [@ EXCEPT !.pc = "A_record", !.debits = @ + 1]]
    /\ UNCHANGED <<call, tasks, txns, decks, faults>>

A_DeductRecord(r) ==
    /\ runs[r].pc = "A_record"
    /\ txns' = txns (+) SetToBag({[task |-> runs[r].task, amount |-> runs[r].cost,
                             creditAccount |-> "document_indexing"]})
    /\ runs' = [runs EXCEPT ![r].pc = "A_cost"]
    /\ UNCHANGED <<call, tasks, balance, totalSpent, decks, faults>>

\* step "deduct-indexing-credits": store the indexing cost on the task
A_UpdateTaskCost(r) ==
    /\ runs[r].pc = "A_cost"
    /\ tasks' = [tasks EXCEPT ![runs[r].task].creditsCost = runs[r].cost]
    /\ runs' = [runs EXCEPT ![r] = Stepped([@ EXCEPT !.bal = -1, !.spent = -1],
                                           "A_outline")]
    /\ UNCHANGED <<call, balance, totalSpent, txns, decks, faults>>

\* step "generate-outline": no answer or unparseable JSON throws; otherwise
\* the chapters whose markers resolve, or the single whole-document chapter
generateOutline(doc) ==
    { [ok |-> FALSE, chapters |-> <<>>],
      [ok |-> TRUE, chapters |-> doc.chapters],
      [ok |-> TRUE, chapters |-> <<doc.tokens>>] }

A_GenerateOutline(r) ==
    /\ runs[r].pc = "A_outline"
    /\ \E res \in generateOutline(runs[r].doc) :
          runs' = [runs EXCEPT ![r] =
                     IF ~res.ok THEN Thrown(@, "llm")
                     ELSE Stepped([@ EXCEPT !.chapters = res.chapters], "A_save")]
    /\ UNCHANGED <<call, tasks, balance, totalSpent, txns, decks, faults>>

\* "save-outline" storing the outline without the document text
A_SaveOutlineWithoutText(r) ==
    /\ runs[r].pc = "A_save"
    /\ tasks' = [tasks EXCEPT ![runs[r].task] =
                   [@ EXCEPT !.status = "outline_ready",
                             !.documentOutline = Some(runs[r].chapters)]]
    /\ runs' = [runs EXCEPT ![r] = Stepped(@, "done")]
    /\ UNCHANGED <<call, balance, totalSpent, txns, decks, faults>>

\* step "save-outline"; the function returns
A_SaveOutline(r) ==
    /\ runs[r].pc = "A_save"
    /\ tasks' = [tasks EXCEPT ![runs[r].task] =
                   [@ EXCEPT !.status = "outline_ready",
                             !.documentOutline = Some(runs[r].chapters),
                             !.documentText = Some(runs[r].doc)]]
    /\ runs' = [runs EXCEPT ![r] = Stepped(@, "done")]
    /\ UNCHANGED <<call, balance, totalSpent, txns, decks, faults>>

(***************************************************************************)
(* generateFromOutlineAction (phase B): check the task, price the          *)
(* selection, check the balance, store the cost on the task and send       *)
(* "flashcard/generate-from-outline".                                      *)
(***************************************************************************)
generateFromOutlineAction(t, selectedChapters) ==
    /\ Len(tasks) + Len(runs) + 1 <= MaxLoad
    /\ tasks[t].status = "outline_ready"
    /\ tasks[t].documentOutline # None
    /\ LET selectedTokens == selectedTokensOf(tasks[t].documentOutline[1],
                                              selectedChapters)
           creditsCost == calculateCreditsCost(selectedTokens)
       IN  /\ balance >= creditsCost
           /\ tasks' = [tasks EXCEPT ![t].creditsCost = creditsCost]
           /\ runs' = Append(runs, NewRun("outline", t, "O_get", "file",
                                          creditsCost, selectedChapters))
    /\ UNCHANGED <<call, balance, totalSpent, txns, decks, faults>>

(***************************************************************************)
(* generateFromOutline                                                     *)
(***************************************************************************)
\* step "get-task": the row must be outline_ready with outline and text
O_GetTask(r) ==
    LET t == tasks[runs[r].task] IN
    /\ runs[r].pc = "O_get"
    /\ runs' = [runs EXCEPT ![r] =
                  IF t.status # "outline_ready" THEN Thrown(@, "status")
                  ELSE IF t.documentOutline = None \/ t.documentText = None
                       THEN Thrown(@, "missing")
                  ELSE Stepped([@ EXCEPT !.doc = t.documentText[1],
                                         !.chapters = t.documentOutline[1]],
                               "O_generating")]
    /\ UNCHANGED <<call, tasks, balance, totalSpent, txns, decks, faults>>

\* step "update-task-generating"
O_UpdateTaskGenerating(r) ==
    /\ runs[r].pc = "O_generating"
    /\ tasks' = [tasks EXCEPT ![runs[r].task] =
                   [@ EXCEPT !.status = "generating",
                             !.selectedChapters = Some(runs[r].sel)]]
    /\ runs' = [runs EXCEPT ![r] = Stepped(@, "O_read")]
    /\ UNCHANGED <<call, balance, totalSpent, txns, decks, faults>>

\* step "deduct-credits"
O_DeductRead(r) ==
    /\ runs[r].pc = "O_read"
    /\ runs' = [runs EXCEPT ![r] =
                  IF balance < @.cost THEN Thrown(@, "insufficient")
                  ELSE [@ EXCEPT !.pc = "O_write", !.bal = balance,
                                 !.spent = totalSpent]]
    /\ UNCHANGED <<call, tasks, balance, totalSpent, txns, decks, faults>>

O_DeductWrite(r) ==
    /\ runs[r].pc = "O_write"
    /\ balance' = runs[r].bal - runs[r].cost
    /\ totalSpent' = runs[r].spent + runs[r].cost
    /\ runs' = [runs EXCEPT ![r] = [@ EXCEPT !.pc = "O_record", !.debits = @ + 1]]
    /\ UNCHANGED <<call, tasks, txns, decks, faults>>

O_DeductRecord(r) ==
    /\ runs[r].pc = "O_record"
    /\ txns' = txns (+) SetToBag({[task |-> runs[r].task, amount |-> runs[r].cost,
                             creditAccount |-> "flashcard_generation"]})
    /\ runs' = [runs EXCEPT ![r] = Stepped([@ EXCEPT !.bal = -1, !.spent = -1],
                                           "O_chunk")]
    /\ UNCHANGED <<call, tasks, balance, totalSpent, decks, faults>>

\* step "extract-and-chunk": split the selected text, reset the counters
O_ExtractAndChunk(r) ==
    LET n == chunkCountOf(runs[r].doc, runs[r].chapters, runs[r].sel) IN
    /\ runs[r].pc = "O_chunk"
    /\ tasks' = [tasks EXCEPT ![runs[r].task] =
                   [@ EXCEPT !.totalChunks = n, !.completedChunks = 0]]
    /\ runs' = [runs EXCEPT ![r] =
                  Stepped([@ EXCEPT !.chunks =
                             [i \in 1..n |-> [st |-> "calling", cards |-> <<>>,
                                             seq |-> 0]]],
                          "O_fanout")]
    /\ UNCHANGED <<call, balance, totalSpent, txns, decks, faults>>

\* the number of chunk promises that have settled
Settled(chunks) == Cardinality({j \in DOMAIN chunks : chunks[j].st # "calling"})

\* chunkResult with a catch branch that hands on the cards of the call
\* instead of the empty list
chunkResultKeepingCards(res, writeOk) ==
    IF res.ok /\ writeOk THEN [st |-> "ok", cards |-> res.cards]
    ELSE [st |-> "failed", cards |-> res.cards]

\* what the async callback of one chunk resolves to: the cards when the
\* LLM call and the progress write both went through, [] from the catch
chunkResult(res, writeOk) ==
    IF res.ok /\ writeOk THEN [st |-> "ok", cards |-> res.cards]
    ELSE [st |-> "failed", cards |-> <<>>]

\* step "generate-all-chunks": the promise of chunk i (index i - 1) settles;
\* seq records as which of the promises of the run it settled (history).
\* Its LLM call comes back and, when that yielded cards, its progress write
\* runs; a throw of either is caught and the chunk yields [].  The write
\* follows the answer with no other statement of this chunk in between, so
\* the two are taken as one step.
O_ChunkSettles(r, i) ==
    /\ runs[r].pc = "O_fanout"
    /\ i \in DOMAIN runs[r].chunks
    /\ runs[r].chunks[i].st = "calling"
    /\ \E resp \in LlmResponses, writeOk \in BOOLEAN :
          LET res == generateFlashcardsFromText(resp, ChunkMaxCards) IN
          /\ (res.ok /\ ~writeOk) => faults < MaxFaults
          /\ ~res.ok => writeOk
          /\ faults' = IF res.ok /\ ~writeOk THEN faults + 1 ELSE faults
          /\ tasks' = IF res.ok /\ writeOk
                      THEN [tasks EXCEPT ![runs[r].task].completedChunks = (i - 1) + 1]
                      ELSE tasks
          /\ runs' = [runs EXCEPT ![r].chunks[i] =
                         [st |-> chunkResult(res, writeOk).st,
                          cards |-> chunkResult(res, writeOk).cards,
                          seq |-> Settled(runs[r].chunks) + 1]]
    /\ UNCHANGED <<call, balance, totalSpent, txns, decks>>

\* results.flat() over the chunk results in the order in which the promises
\* settled
mergeChunkResultsAsSettled(chunks) ==
    LET at(n) == CHOOSE i \in DOMAIN chunks : chunks[i].seq = n
    IN  Flat([n \in DOMAIN chunks |-> chunks[at(n)].cards])

\* what Promise.all hands to results.flat(): the chunk results by index
mergeChunkResults(chunks) == Flat([i \in DOMAIN chunks |-> chunks[i].cards])

\* step "generate-all-chunks": every chunk promise has settled
O_AllChunksSettled(r) ==
    /\ runs[r].pc = "O_fanout"
    /\ \A i \in DOMAIN runs[r].chunks : runs[r].chunks[i].st \in {"ok", "failed"}
    /\ runs' = [runs EXCEPT ![r] =
                  Stepped([@ EXCEPT !.cards = mergeChunkResults(runs[r].chunks)], "O_deck")]
    /\ UNCHANGED <<call, tasks, balance, totalSpent, txns, decks, faults>>

\* step "save-to-database": dedupe, insert the deck under a fresh id
O_InsertDeck(r) ==
    /\ runs[r].pc = "O_deck"
    /\ decks' = decks \cup {[id |-> nanoid(r), task |-> runs[r].task,
                               cardCount |-> Len(Dedupe(runs[r].cards)),
                               rows |-> <<>>]}
    /\ runs' = [runs EXCEPT ![r] = [@ EXCEPT !.pc = "O_cards", !.deck = nanoid(r)]]
    /\ UNCHANGED <<call, tasks, balance, totalSpent, txns, faults>>

\* step "save-to-database": insert the card rows when there are any
O_InsertCards(r) ==
    /\ runs[r].pc = "O_cards"
    /\ decks' = InsertCards(runs[r].deck, Dedupe(runs[r].cards))
    /\ runs' = [runs EXCEPT ![r].pc = "O_complete"]
    /\ UNCHANGED <<call, tasks, balance, totalSpent, txns, faults>>

\* the final task update of generateFromOutline counting the merged cards
\* instead of the deduplicated ones
O_UpdateTaskCompletedMergedCount(r) ==
    /\ runs[r].pc = "O_complete"
    /\ tasks' = [tasks EXCEPT ![runs[r].task] =
                   [@ EXCEPT !.status = "completed", !.deckId = runs[r].deck,
                             !.cardCount = Len(runs[r].cards)]]
    /\ runs' = [runs EXCEPT ![r] = Stepped(@, "done")]
    /\ UNCHANGED <<call, balance, totalSpent, txns, decks, faults>>

\* step "save-to-database": mark the task completed; the function returns
O_UpdateTaskCompleted(r) ==
    /\ runs[r].pc = "O_complete"
    /\ tasks' = [tasks EXCEPT ![runs[r].task] =
                   [@ EXCEPT !.status = "completed", !.deckId = runs[r].deck,
                             !.cardCount = Len(Dedupe(runs[r].cards))]]
    /\ runs' = [runs EXCEPT ![r] = Stepped(@, "done")]
    /\ UNCHANGED <<call, balance, totalSpent, txns, decks, faults>>

(***************************************************************************)
(* A database statement of a step body throws (connection or statement     *)
(* error): the step body ends there without the statement's effect.        *)
(***************************************************************************)
DbPcs ==
    { "G_processing", "G_read", "G_write", "G_record", "G_deck", "G_cards",
      "G_complete",
      "A_analyzing", "A_read", "A_write", "A_record", "A_cost", "A_save",
      "O_get", "O_generating", "O_read", "O_write", "O_record", "O_chunk",
      "O_deck", "O_cards", "O_complete" }

DbStatementThrows(r) ==
    /\ runs[r].pc \in DbPcs
    /\ faults < MaxFaults
    /\ faults' = faults + 1
    /\ runs' = [runs EXCEPT ![r] = Thrown(@, "db")]
    /\ UNCHANGED <<call, tasks, balance, totalSpent, txns, decks>>

Next ==
    \/ \E st \in SourceTypes : generateFlashcardsAction(st)
    \/ analyzeDocumentAction
    \/ \E t \in TaskIds, sel \in Selections : generateFromOutlineAction(t, sel)
    \/ \E r \in RunIds : G_UpdateTaskProcessing(r)
    \/ \E r \in RunIds : G_DeductRead(r)
    \/ \E r \in RunIds : G_DeductWrite(r)
    \/ \E r \in RunIds : G_DeductRecord(r)
    \/ \E r \in RunIds : G_GenerateCards(r)
    \/ \E r \in RunIds : G_InsertDeck(r)
    \/ \E r \in RunIds : G_InsertCards(r)
    \/ \E r \in RunIds : G_UpdateTaskCompleted(r)
    \/ \E r \in RunIds : A_UpdateTaskAnalyzing(r)
    \/ \E r \in RunIds : A_DownloadAndParse(r)
    \/ \E r \in RunIds : A_CountTokens(r)
    \/ \E r \in RunIds : A_DeductRead(r)
    \/ \E r \in RunIds : A_DeductWrite(r)
    \/ \E r \in RunIds : A_DeductRecord(r)
    \/ \E r \in RunIds : A_UpdateTaskCost(r)
    \/ \E r \in RunIds : A_GenerateOutline(r)
    \/ \E r \in RunIds : A_SaveOutline(r)
    \/ \E r \in RunIds : O_GetTask(r)
    \/ \E r \in RunIds : O_UpdateTaskGenerating(r)
    \/ \E r \in RunIds : O_DeductRead(r)
    \/ \E r \in RunIds : O_DeductWrite(r)
    \/ \E r \in RunIds : O_DeductRecord(r)
    \/ \E r \in RunIds : O_ExtractAndChunk(r)
    \/ \E r \in RunIds, i \in 1..MaxChunks : O_ChunkSettles(r, i)
    \/ \E r \in RunIds : O_AllChunksSettled(r)
    \/ \E r \in RunIds : O_InsertDeck(r)
    \/ \E r \in RunIds : O_InsertCards(r)
    \/ \E r \in RunIds : O_UpdateTaskCompleted(r)
    \/ \E r \in RunIds : DbStatementThrows(r)

Spec == Init /\ [][Next]_vars

(***************************************************************************)
(* The two cost functions of the pricing configuration, examined on their  *)
(* own: a call with some number of tokens, then calls with more tokens.    *)
(***************************************************************************)
TokenCounts == {50 * k : k \in 0..MaxTokenSteps}

CostFunctions == {"calculateIndexingCost", "calculateCreationCost"}

CostOf(fn, tokens) ==
    IF fn = "calculateIndexingCost" THEN calculateIndexingCost(tokens)
    ELSE calculateCreationCost(tokens)

CostInit ==
    /\ NoRows
    /\ call \in {[fn |-> f, tokens |-> t, returned |-> FALSE, cost |-> 0,
                  last |-> None] : f \in CostFunctions, t \in TokenCounts}

CostReturns ==
    /\ call.fn \in CostFunctions /\ ~call.returned
    /\ call' = [call EXCEPT !.returned = TRUE,
                            !.cost = CostOf(call.fn, call.tokens)]
    /\ UNCHANGED <<tasks, balance, totalSpent, txns, decks, runs, faults>>

\* the function is called again for a document with more tokens
CostCalledAgain ==
    /\ call.fn \in CostFunctions /\ call.returned
    /\ \E more \in {50, 1000} :
          /\ call.tokens + more \in TokenCounts
          /\ call' = [call EXCEPT !.returned = FALSE,
                                  !.tokens = call.tokens + more,
                                  !.last = Some([tokens |-> call.tokens,
                                                 cost |-> call.cost])]
    /\ UNCHANGED <<tasks, balance, totalSpent, txns, decks, runs, faults>>

CostNext == CostReturns \/ CostCalledAgain

CostSpec == CostInit /\ [][CostNext]_vars

(***************************************************************************)
(* The deduplication of the save step of generateFromOutline, examined on  *)
(* its own: any merged card list of up to MaxCards cards.                  *)
(***************************************************************************)
SeqsUpTo(S, n) == UNION {[1..k -> S] : k \in 0..n}

DedupCards == {CardXA, CardxB, CardYC, CardBlank, CardyA}

DedupeInit ==
    /\ NoRows
    /\ call \in {[fn |-> "dedupe", allFlashcards |-> cs, returned |-> FALSE,
                  dedupedCards |-> <<>>] : cs \in SeqsUpTo(DedupCards, MaxCards)}

\* the loop over allFlashcards and Array.from(uniqueCards.values())
DedupeReturns ==
    /\ call.fn = "dedupe" /\ ~call.returned
    /\ call' = [call EXCEPT !.returned = TRUE,
                            !.dedupedCards = Dedupe(call.allFlashcards)]
    /\ UNCHANGED <<tasks, balance, totalSpent, txns, decks, runs, faults>>

DedupeSpec == DedupeInit /\ [][DedupeReturns]_vars

(***************************************************************************)
(* The chunker.  A text is a sequence of characters over "a" (a letter),   *)
(* "." (the end of a sentence), " " and "\n".  The tokenizer is a byte     *)
(* pair encoding with the single merge "a" "a" -> "aa": every other        *)
(* character is a token of its own.                                        *)
(***************************************************************************)
Min(a, b) == IF a <= b THEN a ELSE b

\* String.prototype.slice(from, to) and slice(from); negative indices count
\* from the end
Slice(s, from, to) ==
    LET n == Len(s)
        a == IF from < 0 THEN Max(n + from, 0) ELSE Min(from, n)
        b == IF to < 0 THEN Max(n + to, 0) ELSE Min(to, n)
    IN  SubSeq(s, a + 1, b)

SliceFrom(s, from) == Slice(s, from, Len(s))

RECURSIVE encode(_)
encode(text) ==
    IF text = <<>> THEN <<>>
    ELSE IF Len(text) >= 2 /\ text[1] = "a" /\ text[2] = "a"
         THEN << <<"a", "a">> >> \o encode(SubSeq(text, 3, Len(text)))
         ELSE << <<text[1]>> >> \o encode(Tail(text))

decode(tokens) == Flat(tokens)

countTokens(text) == IF text = <<>> THEN 0 ELSE Len(encode(text))

truncateToTokens(text, maxTokens) ==
    LET tokens == encode(text)
    IN  IF Len(tokens) <= maxTokens THEN text
        ELSE decode(SubSeq(tokens, 1, maxTokens))

\* the length of the run of newlines, of white space, at the head of s
RECURSIVE NewlineRun(_)
NewlineRun(s) == IF s # <<>> /\ Head(s) = "\n" THEN 1 + NewlineRun(Tail(s)) ELSE 0

RECURSIVE SpaceRun(_)
SpaceRun(s) == IF s # <<>> /\ IsSpace(Head(s)) THEN 1 + SpaceRun(Tail(s)) ELSE 0

Drop(s, k) == SubSeq(s, k + 1, Len(s))

\* text.split(/\n{2,}/), cur being the piece read so far
RECURSIVE SplitParagraphsFrom(_, _)
SplitParagraphsFrom(rest, cur) ==
    LET k == NewlineRun(rest)
    IN  IF rest = <<>> THEN <<cur>>
        ELSE IF k >= 2 THEN <<cur>> \o SplitParagraphsFrom(Drop(rest, k), <<>>)
        ELSE SplitParagraphsFrom(Tail(rest), Append(cur, Head(rest)))

SplitParagraphs(text) == SplitParagraphsFrom(text, <<>>)

\* text.split(/(?<=[.!?])\s+/): a run of white space behind a sentence end
\* separates
RECURSIVE SplitSentencesFrom(_, _)
SplitSentencesFrom(rest, cur) ==
    LET k == SpaceRun(rest)
    IN  IF rest = <<>> THEN <<cur>>
        ELSE IF cur # <<>> /\ cur[Len(cur)] = "." /\ k >= 1
             THEN <<cur>> \o SplitSentencesFrom(Drop(rest, k), <<>>)
        ELSE SplitSentencesFrom(Tail(rest), Append(cur, Head(rest)))

SplitSentences(text) == SplitSentencesFrom(text, <<>>)

\* paragraph.split(/(?<=[.!?])\s*/).length > 1: the pattern also matches the
\* empty string, so every sentence end before the last character separates
HasSentenceBoundary(paragraph) ==
    \E i \in 1..(Len(paragraph) - 1) : paragraph[i] = "."

TextChunk(index, text, startOffset, endOffset) ==
    [index |-> index, text |-> text, tokenCount |-> countTokens(text),
     startOffset |-> startOffset, endOffset |-> endOffset]

\* getOverlapText; slice(-0) is slice(0), the whole text
getOverlapText(text, overlapTokens) ==
    LET tokens == countTokens(text)
        overlapChars == (overlapTokens * Len(text)) \div tokens
    IN  IF overlapTokens <= 0 THEN <<>>
        ELSE IF tokens <= overlapTokens THEN text
        ELSE SliceFrom(text, -overlapChars)

\* one iteration of the while loop of splitFixed on the loop state st
splitFixedIteration(text, maxTokens, overlap, st) ==
    LET remainingText == SliceFrom(text, st.currentOffset)
        chunkText == truncateToTokens(remainingText, maxTokens)
        tokenCount == countTokens(chunkText)
        overlapChars == IF tokenCount = 0 THEN 0
                        ELSE (overlap * Len(chunkText)) \div tokenCount
    IN  [ chunks |-> Append(st.chunks,
                        TextChunk(Len(st.chunks), chunkText, st.currentOffset,
                                  st.currentOffset + Len(chunkText))),
          currentOffset |-> st.currentOffset + Len(chunkText) - overlapChars,
          broke |-> Len(chunkText) = 0 ]

FixedStart == [chunks |-> <<>>, currentOffset |-> 0, broke |-> FALSE]

\* the while loop of splitFixed from the state st.  The next state is a
\* function of currentOffset, so the loop never ends once it comes back to
\* an offset it has been at: diverges stands for the call that never
\* returns.
RECURSIVE splitFixedFrom(_, _, _, _, _)
splitFixedFrom(text, maxTokens, overlap, st, visited) ==
    IF st.broke \/ ~(st.currentOffset < Len(text))
    THEN [diverges |-> FALSE, chunks |-> st.chunks]
    ELSE IF st.currentOffset \in visited
    THEN [diverges |-> TRUE, chunks |-> st.chunks]
    ELSE splitFixedFrom(text, maxTokens, overlap,
                        splitFixedIteration(text, maxTokens, overlap, st),
                        visited \cup {st.currentOffset})

splitFixed(text, maxTokens, overlap) ==
    splitFixedFrom(text, maxTokens, overlap, FixedStart, {})

\* the body of the for loop of splitBySentence
sentenceStep(st, sentence, maxTokens, overlap) ==
    LET testChunk == IF st.currentChunk # <<>>
                     THEN st.currentChunk \o <<" ">> \o sentence ELSE sentence
        overlapText == getOverlapText(st.currentChunk, overlap)
    IN  IF countTokens(testChunk) > maxTokens /\ st.currentChunk # <<>>
        THEN [ chunks |-> Append(st.chunks,
                             TextChunk(Len(st.chunks), st.currentChunk,
                                       st.chunkStartOffset, st.currentOffset)),
               currentChunk |-> IF overlapText # <<>>
                                THEN overlapText \o <<" ">> \o sentence
                                ELSE sentence,
               chunkStartOffset |-> st.currentOffset - Len(overlapText),
               currentOffset |-> st.currentOffset + Len(sentence) + 1 ]
        ELSE [st EXCEPT !.currentChunk = testChunk,
                        !.currentOffset = @ + Len(sentence) + 1]

RECURSIVE sentenceLoop(_, _, _, _)
sentenceLoop(st, sentences, maxTokens, overlap) ==
    IF sentences = <<>> THEN st
    ELSE sentenceLoop(sentenceStep(st, Head(sentences), maxTokens, overlap),
                      Tail(sentences), maxTokens, overlap)

\* the last chunk, pushed when currentChunk is not empty
WithLastChunk(st, text) ==
    IF st.currentChunk # <<>>
    THEN Append(st.chunks, TextChunk(Len(st.chunks), st.currentChunk,
                                     st.chunkStartOffset, Len(text)))
    ELSE st.chunks

splitBySentence(text, maxTokens, overlap) ==
    LET st == sentenceLoop([chunks |-> <<>>, currentChunk |-> <<>>,
                            currentOffset |-> 0, chunkStartOffset |-> 0],
                           SplitSentences(text), maxTokens, overlap)
    IN  [diverges |-> FALSE, chunks |-> WithLastChunk(st, text)]

splitLongParagraph(paragraph, maxTokens, overlap) ==
    IF HasSentenceBoundary(paragraph)
    THEN splitBySentence(paragraph, maxTokens, overlap)
    ELSE splitFixed(paragraph, maxTokens, overlap)

\* chunks.push of the pieces of a long paragraph, offsets moved by offset
RECURSIVE pushSplitParagraphs(_, _, _)
pushSplitParagraphs(chunks, sps, offset) ==
    IF sps = <<>> THEN chunks
    ELSE pushSplitParagraphs(
            Append(chunks, [index |-> Len(chunks), text |-> Head(sps).text,
                            tokenCount |-> Head(sps).tokenCount,
                            startOffset |-> offset + Head(sps).startOffset,
                            endOffset |-> offset + Head(sps).endOffset]),
            Tail(sps), offset)

\* the body of the for loop of splitByParagraph
paragraphStep(st, rawParagraph, maxTokens, overlap) ==
    LET paragraph == trim(rawParagraph)
        testChunk == IF st.currentChunk # <<>>
                     THEN st.currentChunk \o <<"\n", "\n">> \o paragraph
                     ELSE paragraph
        overlapText == getOverlapText(st.currentChunk, overlap)
        splitParagraphs == splitLongParagraph(paragraph, maxTokens, overlap)
        advanced == st.currentOffset + Len(paragraph) + 2
    IN  IF rawParagraph = <<>> THEN st
        ELSE IF paragraph = <<>> THEN [st EXCEPT !.currentOffset = @ + 2]
        ELSE IF countTokens(testChunk) <= maxTokens
        THEN [st EXCEPT !.currentChunk = testChunk, !.currentOffset = advanced]
        ELSE IF st.currentChunk # <<>>
        THEN [st EXCEPT
                !.chunks = Append(@, TextChunk(Len(st.chunks), st.currentChunk,
                                     st.chunkStartOffset, st.currentOffset)),
                !.currentChunk = IF overlapText # <<>>
                                 THEN overlapText \o <<"\n", "\n">> \o paragraph
                                 ELSE paragraph,
                !.chunkStartOffset = st.currentOffset - Len(overlapText),
                !.currentOffset = advanced]
        ELSE IF splitParagraphs.diverges THEN [st EXCEPT !.diverges = TRUE]
        ELSE [st EXCEPT
                !.chunks = pushSplitParagraphs(@, splitParagraphs.chunks,
                                               st.currentOffset),
                !.currentChunk = <<>>,
                !.chunkStartOffset = advanced,
                !.currentOffset = advanced]

RECURSIVE paragraphLoop(_, _, _, _)
paragraphLoop(st, paragraphs, maxTokens, overlap) ==
    IF paragraphs = <<>> \/ st.diverges THEN st
    ELSE paragraphLoop(paragraphStep(st, Head(paragraphs), maxTokens, overlap),
                       Tail(paragraphs), maxTokens, overlap)

splitByParagraph(text, maxTokens, overlap) ==
    LET st == paragraphLoop([chunks |-> <<>>, currentChunk |-> <<>>,
                             currentOffset |-> 0, chunkStartOffset |-> 0,
                             diverges |-> FALSE],
                            SplitParagraphs(text), maxTokens, overlap)
    IN  IF st.diverges THEN [diverges |-> TRUE, chunks |-> st.chunks]
        ELSE [diverges |-> FALSE, chunks |-> WithLastChunk(st, text)]

\* splitIntoChunks without the early return for a text within maxTokens
splitIntoChunksAlwaysSplitting(text, options) ==
    IF text = <<>> THEN [diverges |-> FALSE, chunks |-> <<>>]
    ELSE CASE options.strategy = "paragraph" ->
                splitByParagraph(text, options.maxTokens, options.overlap)
           [] options.strategy = "sentence" ->
                splitBySentence(text, options.maxTokens, options.overlap)
           [] options.strategy = "fixed" ->
                splitFixed(text, options.maxTokens, options.overlap)

splitIntoChunks(text, options) ==
    IF text = <<>> THEN [diverges |-> FALSE, chunks |-> <<>>]
    ELSE IF countTokens(text) <= options.maxTokens
    THEN [diverges |-> FALSE,
          chunks |-> <<TextChunk(0, text, 0, Len(text))>>]
    ELSE CASE options.strategy = "paragraph" ->
                splitByParagraph(text, options.maxTokens, options.overlap)
           [] options.strategy = "sentence" ->
                splitBySentence(text, options.maxTokens, options.overlap)
           [] options.strategy = "fixed" ->
                splitFixed(text, options.maxTokens, options.overlap)

(***************************************************************************)
(* splitIntoChunks examined on its own: texts of up to MaxPieces pieces    *)
(* (a letter, a sentence end, a blank, a paragraph break), with            *)
(* maxTokens > overlap >= 0 and each strategy.                             *)
(***************************************************************************)
Pieces == { <<"a">>, <<".">>, <<" ">>, <<"\n", "\n">> }

Texts == {Flat(ps) : ps \in SeqsUpTo(Pieces, MaxPieces)}

ChunkOptionSets ==
    [maxTokens : {2, 3}, overlap : {0, 1},
     strategy : {"paragraph", "sentence", "fixed"}]

ChunkInit ==
    /\ NoRows
    /\ call \in {[fn |-> "splitIntoChunks", text |-> t, options |-> o,
                  returned |-> FALSE, diverges |-> FALSE, chunks |-> <<>>] :
                    t \in Texts, o \in ChunkOptionSets}

\* the call returns its chunk list
ChunkReturns ==
    /\ call.fn = "splitIntoChunks" /\ ~call.returned /\ ~call.diverges
    /\ LET res == splitIntoChunks(call.text, call.options)
       IN  /\ ~res.diverges
           /\ call' = [call EXCEPT !.returned = TRUE, !.chunks = res.chunks]
    /\ UNCHANGED <<tasks, balance, totalSpent, txns, decks, runs, faults>>

\* the call is caught in the loop of splitFixed and never returns
ChunkNeverReturns ==
    /\ call.fn = "splitIntoChunks" /\ ~call.returned /\ ~call.diverges
    /\ LET res == splitIntoChunks(call.text, call.options)
       IN  /\ res.diverges
           /\ call' = [call EXCEPT !.diverges = TRUE, !.chunks = res.chunks]
    /\ UNCHANGED <<tasks, balance, totalSpent, txns, decks, runs, faults>>

ChunkNext == ChunkReturns \/ ChunkNeverReturns

ChunkSpec == ChunkInit /\ [][ChunkNext]_vars

(***************************************************************************)
(* The while loop of splitFixed, one iteration at a time, on the texts     *)
(* splitIntoChunks and splitLongParagraph hand to it (more than maxTokens  *)
(* tokens), for up to MaxIterations iterations.                            *)
(***************************************************************************)
FixedInit ==
    /\ NoRows
    /\ call \in {[fn |-> "splitFixed", text |-> t, maxTokens |-> o.maxTokens,
                  overlap |-> o.overlap, st |-> FixedStart,
                  returned |-> FALSE] :
                    t \in {x \in Texts : countTokens(x) > 3},
                    o \in ChunkOptionSets}

FixedIterates ==
    /\ call.fn = "splitFixed" /\ ~call.returned
    /\ call.st.currentOffset < Len(call.text) /\ ~call.st.broke
    /\ Len(call.st.chunks) < MaxIterations
    /\ call' = [call EXCEPT !.st = splitFixedIteration(call.text,
                                      call.maxTokens, call.overlap, call.st)]
    /\ UNCHANGED <<tasks, balance, totalSpent, txns, decks, runs, faults>>

FixedReturns ==
    /\ call.fn = "splitFixed" /\ ~call.returned
    /\ call.st.broke \/ ~(call.st.currentOffset < Len(call.text))
    /\ call' = [call EXCEPT !.returned = TRUE]
    /\ UNCHANGED <<tasks, balance, totalSpent, txns, decks, runs, faults>>

FixedNext == FixedIterates \/ FixedReturns

FixedSpec == FixedInit /\ [][FixedNext]_vars

(***************************************************************************)
(* The outline builder: generateOutline on the answer of the completion    *)
(* endpoint and buildChapterInfo.  Titles, summaries and page numbers are  *)
(* left out; they are copied or computed per chapter and steer nothing.    *)
(***************************************************************************)
Rep(c, n) == [i \in 1..n |-> c]

\* fullText.indexOf(marker): the first offset at which marker occurs, or -1
indexOf(fullText, marker) ==
    LET hits == {i \in 0..(Len(fullText) - Len(marker)) :
                    SubSeq(fullText, i + 1, i + Len(marker)) = marker}
    IN  IF hits = {} THEN -1 ELSE CHOOSE i \in hits : \A j \in hits : i <= j

\* the offset buildChapterInfo resolves a start marker to, or -1
resolveMarker(fullText, startMarker) ==
    LET m == trim(startMarker)
        exact == indexOf(fullText, m)
        long == IF exact = -1 /\ Len(m) > MarkerPrefixLong
                THEN indexOf(fullText, Slice(m, 0, MarkerPrefixLong)) ELSE exact
    IN  IF long = -1 /\ Len(m) > MarkerPrefixShort
        THEN indexOf(fullText, Slice(m, 0, MarkerPrefixShort)) ELSE long

\* the first loop of buildChapterInfo: the positions found, in the order of
\* rawChapters
RECURSIVE findPositions(_, _, _)
findPositions(fullText, rawChapters, i) ==
    IF i > Len(rawChapters) THEN <<>>
    ELSE LET startPos == resolveMarker(fullText, rawChapters[i].startMarker[1])
         IN  (IF startPos # -1 THEN <<[index |-> i - 1, start |-> startPos]>>
              ELSE <<>>)
             \o findPositions(fullText, rawChapters, i + 1)

\* the positions left in the order of rawChapters
sortByStartLeavingOrder(ps) == ps

\* positions.sort((a, b) => a.start - b.start): a stable insertion
RECURSIVE sortByStart(_)
sortByStart(ps) ==
    IF ps = <<>> THEN <<>>
    ELSE LET rest == sortByStart(SubSeq(ps, 1, Len(ps) - 1))
             p == ps[Len(ps)]
             k == Cardinality({j \in DOMAIN rest : rest[j].start <= p.start})
         IN  SubSeq(rest, 1, k) \o <<p>> \o SubSeq(rest, k + 1, Len(rest))

ChapterInfo(index, fullText, start, end) ==
    [index |-> index,
     estimatedTokens |-> countTokens(Slice(fullText, start, end)),
     textRange |-> [start |-> start, end |-> end]]

\* buildChapterInfo without the default chapter for an empty result
buildChapterInfoWithoutDefault(fullText, rawChapters) ==
    LET positions == sortByStart(findPositions(fullText, rawChapters, 1))
    IN  [i \in DOMAIN positions |->
            ChapterInfo(i - 1, fullText, positions[i].start,
                        IF i < Len(positions) THEN positions[i + 1].start
                        ELSE Len(fullText))]

\* buildChapterInfo on entries that all carry a startMarker
buildChapterInfo(fullText, rawChapters) ==
    LET positions == sortByStart(findPositions(fullText, rawChapters, 1))
        chapters ==
           [i \in DOMAIN positions |->
               ChapterInfo(i - 1, fullText, positions[i].start,
                           IF i < Len(positions) THEN positions[i + 1].start
                           ELSE Len(fullText))]
    IN  IF Len(chapters) = 0
        THEN <<ChapterInfo(0, fullText, 0, Len(fullText))>>
        ELSE chapters

\* the text generateOutline sends to the model: the text itself, or its
\* first maxInputTokens tokens when it has more
inputTextOf(text, maxInputTokens) ==
    IF countTokens(text) > maxInputTokens
    THEN truncateToTokens(text, maxInputTokens) ELSE text

\* the input budgets considered: that of the model configured, and a small
\* one that the first text below exceeds
InputBudgets == {MODEL_TOKEN_LIMIT - OutputReserve, SmallInputBudget}

\* what generateOutline does with the response: [threw |-> TRUE] for no
\* content, for content JSON.parse rejects and for an entry whose
\* startMarker is undefined (TypeError on .trim())
generateOutlineOf(text, response, options) ==
    LET rawChapters == IF response.kind = "chapters" THEN response.chapters
                       ELSE <<>>
        sliced == Slice(rawChapters, 0, options.maxChapters)
    IN  IF response.kind \in {"none", "malformed"}
        THEN [threw |-> TRUE, chapters |-> <<>>]
        ELSE IF \E i \in DOMAIN sliced : sliced[i].startMarker = None
        THEN [threw |-> TRUE, chapters |-> <<>>]
        ELSE [threw |-> FALSE, chapters |-> buildChapterInfo(text, sliced)]

\* a document of three sections of 20 characters, and a short one
OutlineTexts ==
    { Rep("a", 20) \o Rep("b", 20) \o Rep("c", 20),
      <<"a", "b", "c", "a", "b">> }

\* start markers the model may answer with: found as they are, found after
\* trimming, found nowhere, empty, found by their first 20 or 50 characters
StartMarkers ==
    { <<"b">>, <<"c">>, <<"a", "b">>, <<" ", "c", " ">>, <<"x">>, <<>>,
      Rep("b", 21),
      Rep("a", 20) \o Rep("b", 20) \o Rep("c", 10) \o <<"x">> }

RawChapters ==
    {[startMarker |-> Some(mk)] : mk \in StartMarkers}
       \cup {[startMarker |-> None]}

OutlineResponses ==
    { [kind |-> "none", chapters |-> <<>>],
      [kind |-> "malformed", chapters |-> <<>>],
      [kind |-> "nokey", chapters |-> <<>>] }
       \cup {[kind |-> "chapters", chapters |-> cs] :
                cs \in SeqsUpTo(RawChapters, MaxRawChapters)}

OutlineInit ==
    /\ NoRows
    /\ call \in {[fn |-> "generateOutline", text |-> t, response |-> resp,
                  options |-> [maxChapters |-> mc], returned |-> FALSE,
                  threw |-> FALSE, chapters |-> <<>>,
                  inputText |-> inputTextOf(t, mit)] :
                    t \in OutlineTexts, resp \in OutlineResponses,
                    mc \in {2, DefaultMaxChapters}, mit \in InputBudgets}

OutlineReturns ==
    /\ call.fn = "generateOutline" /\ ~call.returned /\ ~call.threw
    /\ LET res == generateOutlineOf(call.text, call.response, call.options)
       IN  /\ ~res.threw
           /\ call' = [call EXCEPT !.returned = TRUE, !.chapters = res.chapters]
    /\ UNCHANGED <<tasks, balance, totalSpent, txns, decks, runs, faults>>

OutlineThrows ==
    /\ call.fn = "generateOutline" /\ ~call.returned /\ ~call.threw
    /\ generateOutlineOf(call.text, call.response, call.options).threw
    /\ call' = [call EXCEPT !.threw = TRUE]
    /\ UNCHANGED <<tasks, balance, totalSpent, txns, decks, runs, faults>>

OutlineNext == OutlineReturns \/ OutlineThrows

OutlineSpec == OutlineInit /\ [][OutlineNext]_vars

(***************************************************************************)
(* Properties.                                                             *)
(***************************************************************************)
InFlight == {"processing", "analyzing", "generating"}

RunsOf(t) == {r \in RunIds : runs[r].task = t}

\* ledger rows of a task on a credit account
LedgerEntries(t, account) ==
    LET rows == {x \in BagToSet(txns) : x.task = t /\ x.creditAccount = account}
        RECURSIVE Count(_)
        Count(S) == IF S = {} THEN 0
                    ELSE LET x == CHOOSE y \in S : TRUE
                         IN  CopiesIn(x, txns) + Count(S \ {x})
    IN  Count(rows)

\* the cards of the chunks whose callback returned cards, in index order
CardsOfSucceeded(chunks) ==
    Flat([i \in DOMAIN chunks |->
            IF chunks[i].st = "ok" THEN chunks[i].cards ELSE <<>>])

SucceededChunks(chunks) == {i \in DOMAIN chunks : chunks[i].st = "ok"}

DeckRows(id) == {d.rows : d \in {x \in decks : x.id = id}}

\* C1: a run writes the balance for its debit step at most once, however
\* often the framework re-runs the step after it failed part-way.
C1_DebitAtMostOncePerRun ==
    \A r \in RunIds : runs[r].debits <= 1

\* C2: the balance never drops below zero, and a run decrements the balance
\* only in a state in which the balance is at least the cost it debits.
C2_NoDebitOnStaleBalance ==
    [][\A r \in DOMAIN runs :
          runs'[r].debits > runs[r].debits =>
             balance >= runs[r].cost /\ balance' >= 0]_vars

\* C3: for each task at most one run of generateFromOutline decrements the
\* balance, and at most one generation ledger row of the task exists.
C3_GenerationDebitedOncePerTask ==
    \A t \in TaskIds :
       /\ Cardinality({r \in RunsOf(t) :
                          runs[r].fn = "outline" /\ runs[r].debits > 0}) <= 1
       /\ tasks[t].sourceType = "file" =>
             LedgerEntries(t, "flashcard_generation") <= 1

\* C4: a run whose step used up its retries leaves the task failed with the
\* failure detail in errorMessage.
C4_ExhaustedStepFailsTask ==
    \A r \in RunIds :
       runs[r].pc = "failed" =>
          /\ tasks[runs[r].task].status = "failed"
          /\ tasks[runs[r].task].errorMessage # None

\* C5: a task is in processing, analyzing or generating only while a run of
\* it is still executing; once every run of the task has ended, nothing can
\* move the task on, so it must not rest in one of these states.
C5_NoTaskStuckInFlight ==
    \A t \in TaskIds :
       tasks[t].status \in InFlight => \E r \in RunsOf(t) : ~Terminated(r)

\* C6: a generateFromOutline run that ended on insufficient credits leaves
\* the task failed, not generating, and with no selectedChapters stored.
C6_InsufficientLeavesTaskUnmutated ==
    \A r \in RunIds :
       (runs[r].fn = "outline" /\ runs[r].pc = "failed"
          /\ runs[r].err = "insufficient") =>
          /\ tasks[runs[r].task].status = "failed"
          /\ tasks[runs[r].task].selectedChapters = None

\* C7: a run that ended on an input error has not written the balance, and
\* the ledger holds no row of its task.
C7_InputErrorBeforeDebit ==
    \A r \in RunIds :
       (runs[r].pc = "failed" /\ runs[r].err = "input") =>
          /\ runs[r].debits = 0
          /\ LedgerEntries(runs[r].task, "flashcard_generation") = 0
          /\ LedgerEntries(runs[r].task, "document_indexing") = 0

\* C8: chunk failures never end the run in "generate-all-chunks"; the merged
\* cards are those of the chunks that succeeded, in index order, a failed
\* chunk adding none; and the card rows saved are these cards deduplicated.
C8_ChunkFailureIsolated ==
    \A r \in RunIds :
       runs[r].fn = "outline" =>
          /\ ~(runs[r].pc = "failed" /\ runs[r].at = "O_fanout")
          /\ runs[r].pc \in {"O_deck", "O_cards", "O_complete", "done"} =>
                runs[r].cards = CardsOfSucceeded(runs[r].chunks)
          /\ runs[r].pc \in {"O_complete", "done"} =>
                DeckRows(runs[r].deck) = {Dedupe(CardsOfSucceeded(runs[r].chunks))}

\* C8 witness: a run has finished with one chunk failed and another chunk
\* succeeded, and its deck holds cards.
C8_Witness ==
    \E r \in RunIds :
       /\ runs[r].fn = "outline" /\ runs[r].pc = "done"
       /\ \E i, j \in DOMAIN runs[r].chunks :
             runs[r].chunks[i].st = "failed" /\ runs[r].chunks[j].st = "ok"
       /\ DeckRows(runs[r].deck) # {<<>>}
       /\ tasks[runs[r].task].status = "completed"

\* C9: while a task is generating, the settling of a chunk never lowers
\* completedChunks.
C9_CompletedChunksMonotone ==
    [][\A r \in DOMAIN runs, i \in 1..MaxChunks :
          O_ChunkSettles(r, i) =>
             tasks'[runs[r].task].completedChunks
                >= tasks[runs[r].task].completedChunks]_vars

\* C10: when every chunk call of a run has finished and no chunk failed,
\* completedChunks equals totalChunks.
C10_NoLostProgress ==
    \A r \in RunIds :
       (runs[r].fn = "outline" /\ runs[r].pc = "O_deck"
          /\ SucceededChunks(runs[r].chunks) = DOMAIN runs[r].chunks) =>
          tasks[runs[r].task].completedChunks = tasks[runs[r].task].totalChunks

\* the status transitions of the task state machine
AllowedTransitions ==
    { <<"pending", "analyzing">>, <<"analyzing", "outline_ready">>,
      <<"outline_ready", "generating">>, <<"generating", "completed">>,
      <<"pending", "processing">>, <<"processing", "completed">> }
       \cup ({"pending", "analyzing", "outline_ready", "processing",
              "generating"} \X {"failed"})

\* C11: every change of a task's status is one of the transitions of the
\* state machine.
C11_OnlyAllowedTransitions ==
    [][\A t \in DOMAIN tasks :
          tasks'[t].status # tasks[t].status =>
             <<tasks[t].status, tasks'[t].status>> \in AllowedTransitions]_vars

\* C12: documentOutline and documentText of a task are both null or both
\* non-null, and both are non-null when the status is outline_ready.
C12_OutlineAndTextTogether ==
    \A t \in TaskIds :
       /\ (tasks[t].documentOutline = None) <=> (tasks[t].documentText = None)
       /\ tasks[t].status = "outline_ready" =>
             tasks[t].documentOutline # None /\ tasks[t].documentText # None

\* C12 witness: the analysis has saved its result on a task.
C12_Witness ==
    \E t \in TaskIds :
       /\ tasks[t].status = "outline_ready"
       /\ tasks[t].documentOutline # None
       /\ tasks[t].documentText # None

SubSeqAt(cs, K) ==
    [n \in 1..Cardinality(K) |->
        cs[CHOOSE i \in K : Cardinality({j \in K : j <= i}) = n]]

\* C14: the deduplicated list is the merged list restricted to the first
\* position of every key, in the order of the merged list; the key is the
\* front lower-cased and trimmed, so "X", "x " have one key whatever the back.
C14_FirstOccurrenceWins ==
    (call.fn = "dedupe" /\ call.returned) =>
       LET cs == call.allFlashcards
           First == {i \in DOMAIN cs :
                       \A j \in 1..(i - 1) : DedupKey(cs[j]) # DedupKey(cs[i])}
       IN  /\ call.dedupedCards = SubSeqAt(cs, First)
           /\ DedupKey(CardXA) = <<"x">> /\ DedupKey(CardxB) = <<"x">>
           /\ DedupKey(CardyA) = <<"y">> /\ DedupKey(CardYC) = <<"y">>
           /\ \A i, j \in DOMAIN call.dedupedCards :
                 i # j => DedupKey(call.dedupedCards[i])
                             # DedupKey(call.dedupedCards[j])

\* C14 witness: a later card with the key of an earlier one and another
\* back was dropped, and a card behind it was kept.
C14_Witness ==
    /\ call.fn = "dedupe" /\ call.returned
    /\ call.allFlashcards = <<CardXA, CardxB, CardYC>>
    /\ call.dedupedCards = <<CardXA, CardYC>>

\* C15: a call of splitIntoChunks on a text of at most maxTokens tokens
\* returns, for the empty text the empty list and otherwise the one chunk
\* that is the text, with index 0 and the offsets 0 and length(text).
C15_ShortTextIsOneChunk ==
    (call.fn = "splitIntoChunks"
       /\ countTokens(call.text) <= call.options.maxTokens) =>
       /\ ~call.diverges
       /\ call.returned =>
             IF call.text = <<>> THEN call.chunks = <<>>
             ELSE /\ Len(call.chunks) = 1
                  /\ call.chunks[1].text = call.text
                  /\ call.chunks[1].index = 0
                  /\ call.chunks[1].startOffset = 0
                  /\ call.chunks[1].endOffset = Len(call.text)

\* C15 witness: a text within maxTokens with blanks around it came back as
\* one chunk under the paragraph strategy.
C15_Witness ==
    /\ call.fn = "splitIntoChunks" /\ call.returned
    /\ call.text = <<" ", "a", " ">>
    /\ call.options = [maxTokens |-> 3, overlap |-> 1, strategy |-> "paragraph"]
    /\ Len(call.chunks) = 1

\* C16: every iteration of the loop of splitFixed moves currentOffset
\* forward.
C16_FixedLoopAdvances ==
    [][(call.fn = "splitFixed" /\ call'.st # call.st) =>
          call'.st.currentOffset > call.st.currentOffset]_vars

\* C17: every chunk returned has at most maxTokens tokens plus the overlap
\* and the two characters that join it to a paragraph.
C17_ChunkWithinLimit ==
    (call.fn = "splitIntoChunks" /\ call.returned) =>
       \A i \in DOMAIN call.chunks :
          countTokens(call.chunks[i].text)
             <= call.options.maxTokens + call.options.overlap + 2

\* the positions of the text no white space character is at (0-based)
InkPositions(text) == {i \in 0..(Len(text) - 1) : ~IsSpace(text[i + 1])}

\* C18: every character of the text that is not white space lies in the
\* span [startOffset, endOffset) of a chunk returned for it.
C18_SpansCoverText ==
    (call.fn = "splitIntoChunks" /\ call.returned) =>
       \A i \in InkPositions(call.text) :
          \E k \in DOMAIN call.chunks :
             call.chunks[k].startOffset <= i /\ i < call.chunks[k].endOffset

\* the raw chapters generateOutline hands to buildChapterInfo
SlicedChapters ==
    IF call.response.kind = "chapters"
    THEN Slice(call.response.chapters, 0, call.options.maxChapters) ELSE <<>>

C20_OutlineOrdered ==
    (call.fn = "generateOutline" /\ call.returned) =>
       LET ch == call.chapters
       IN  /\ \A i \in DOMAIN ch : ch[i].index = i - 1
           /\ \A i \in 1..(Len(ch) - 1) :
                 /\ ch[i].textRange.start <= ch[i + 1].textRange.start
                 /\ ch[i].textRange.end = ch[i + 1].textRange.start
           /\ Len(ch) >= 1 => ch[Len(ch)].textRange.end = Len(call.text)
           /\ Len(ch) <= call.options.maxChapters

\* C20 witness: markers listed against the order of the text, two of them
\* resolving to one offset, came back as three ordered chapters.
C20_Witness ==
    /\ call.fn = "generateOutline" /\ call.returned
    /\ call.response.kind = "chapters"
    /\ call.response.chapters =
          <<[startMarker |-> Some(<<"c">>)], [startMarker |-> Some(<<"b">>)],
            [startMarker |-> Some(Rep("b", 21))]>>
    /\ Len(call.text) = 60
    /\ Len(call.chapters) = 3
    /\ call.chapters[1].textRange = [start |-> 20, end |-> 20]
    /\ call.chapters[3].textRange = [start |-> 40, end |-> 60]

\* the rate of a cost function in hundredths of a credit per 10000 tokens
RateOf(fn) ==
    IF fn = "calculateIndexingCost" THEN INDEXING_RATE_PER_10K_TOKENS
    ELSE CREATION_RATE_PER_10K_TOKENS

\* C21: a cost function returns the larger of the minimum cost and the
\* product tokens / 10000 * rate cut off after the second decimal; it
\* returns the minimum for 0 tokens and never less for more tokens.
C21_CostIsTruncatedProduct ==
    (call.fn \in CostFunctions /\ call.returned) =>
       /\ call.cost = Max(MIN_CREDITS_COST,
                          (call.tokens * RateOf(call.fn)) \div 10000)
       /\ call.tokens = 0 => call.cost = MIN_CREDITS_COST
       /\ call.last # None => call.cost >= call.last[1].cost

\* C22: a task that is completed or failed is not written again: none of
\* its fields changes in any later step.
C22_TerminalTaskImmutable ==
    [][\A t \in DOMAIN tasks :
          tasks[t].status \in {"completed", "failed"} => tasks'[t] = tasks[t]]_vars

\* per-chunk results of a run without the order of settling
ChunkResults(r) ==
    [i \in DOMAIN runs[r].chunks |->
        [st |-> runs[r].chunks[i].st, cards |-> runs[r].chunks[i].cards]]

\* C23: the merged cards of a run are the chunk results concatenated by
\* chunk index whatever the order in which the calls came back, the rows
\* saved are these cards deduplicated, and two runs with the same chunk
\* results have merged the same cards in the same order.
C23_MergeInIndexOrder ==
    \A r \in RunIds :
       (runs[r].fn = "outline"
          /\ runs[r].pc \in {"O_deck", "O_cards", "O_complete", "done"}) =>
          /\ runs[r].cards = Flat([i \in DOMAIN runs[r].chunks |->
                                      runs[r].chunks[i].cards])
          /\ runs[r].pc \in {"O_complete", "done"} =>
                DeckRows(runs[r].deck) = {Dedupe(runs[r].cards)}
          /\ \A q \in RunIds :
                (runs[q].fn = "outline"
                   /\ runs[q].pc \in {"O_deck", "O_cards", "O_complete", "done"}
                   /\ ChunkResults(q) = ChunkResults(r)) =>
                   runs[q].cards = runs[r].cards

\* C23 witness: a run is done whose second chunk came back before its first,
\* the two chunks holding cards of one key with different backs; the card
\* of the first chunk is the one saved.
C23_Witness ==
    \E r \in RunIds :
       /\ runs[r].fn = "outline" /\ runs[r].pc = "done"
       /\ Len(runs[r].chunks) = 2
       /\ runs[r].chunks[2].seq = 1 /\ runs[r].chunks[1].seq = 2
       /\ runs[r].chunks[1].cards = <<CardXA>>
       /\ runs[r].chunks[2].cards = <<CardxB>>
       /\ DeckRows(runs[r].deck) = {<<CardXA>>}
       /\ tasks[runs[r].task].deckId = runs[r].deck

\* C24: when generateOutline sent only a truncated prefix of the text to
\* the model, no chapter of the outline it returns reaches beyond the end
\* of that prefix.
C24_NoChapterBeyondTruncation ==
    (call.fn = "generateOutline" /\ call.returned
       /\ Len(call.inputText) < Len(call.text)) =>
       \A i \in DOMAIN call.chapters :
          call.chapters[i].textRange.end <= Len(call.inputText)

\* C25: the amount a generateFromOutline run takes from the balance is
\* calculateCreationCost of the sum of the estimatedTokens of the chapters
\* selected.
C25_PhaseBDebitIsCreationCost ==
    \A r \in RunIds :
       (runs[r].fn = "outline" /\ runs[r].debits > 0) =>
          runs[r].cost =
             calculateCreationCost(
                selectedTokensOf(tasks[runs[r].task].documentOutline[1],
                                 runs[r].sel))

\* a debit step of a run of task t has stored its cost on the task row, or
\* has debited the cost the row holds
CostRecorded(t) ==
    \E r \in RunsOf(t) :
       \/ runs[r].fn = "analyze" /\ runs[r].pc \in {"A_outline", "A_save", "done"}
       \/ runs[r].fn = "outline" /\ runs[r].debits > 0

\* C26: once a debit has recorded its cost on a task, the cost field of the
\* task keeps its value in every later step.
C26_RecordedCostKept ==
    [][\A t \in DOMAIN tasks :
          CostRecorded(t) => tasks'[t].creditsCost = tasks[t].creditsCost]_vars

\* the sum of the amounts of the consumption transactions recorded
RECURSIVE AmountOf(_)
AmountOf(rows) ==
    IF rows = {} THEN 0
    ELSE LET x == CHOOSE y \in rows : TRUE
         IN  x.amount * CopiesIn(x, txns) + AmountOf(rows \ {x})

LedgerTotal == AmountOf(BagToSet(txns))

\* C27: when every run has ended and no database statement has thrown,
\* whatever the interleaving of the debit steps was, the balance has gone
\* down and totalSpent has gone up by the sum of the amounts of the
\* transactions recorded.
C27_LedgerMatchesBalance ==
    (faults = 0 /\ \A r \in RunIds : Terminated(r)) =>
       /\ InitBalance - balance = LedgerTotal
       /\ totalSpent = LedgerTotal

\* the credit account the debit step of a function books on
AccountOf(fn) ==
    IF fn = "analyze" THEN "document_indexing" ELSE "flashcard_generation"

\* the model answers a call of run r: the legacy generation, the outline
\* generation, or one of the chunk calls
LlmCallOf(r) ==
    \/ G_GenerateCards(r)
    \/ A_GenerateOutline(r)
    \/ \E i \in 1..MaxChunks : O_ChunkSettles(r, i)

C29_ProgressWithinTotal ==
    \A t \in TaskIds :
       tasks[t].totalChunks >= 0 =>
          /\ 0 <= tasks[t].completedChunks
          /\ tasks[t].completedChunks <= tasks[t].totalChunks
          /\ tasks[t].totalChunks =
                chunkCountOf(tasks[t].documentText[1], tasks[t].documentOutline[1],
                             tasks[t].selectedChapters[1])

\* the deck rows run r has inserted (nanoid(r) carries the run)
DecksOf(r) == {d \in decks : d.id[1] = r}

\* C30: a run inserts at most one deck, also when its save step is re-run,
\* and when it has returned, every deck row of its task is the deck the
\* task refers to.
C30_OneDeckPerRun ==
    \A r \in RunIds :
       /\ Cardinality(DecksOf(r)) <= 1
       /\ runs[r].pc = "done" =>
             \A d \in decks :
                d.task = runs[r].task => d.id = tasks[runs[r].task].deckId

====
